---- MODULE Spec2Model ----
(***************************************************************************)
(* Sort-state engine of dioxus-sortable (src/src/use_sorter.rs).           *)
(*                                                                         *)
(* UseSorter holds two Dioxus UseState cells, `field` and `direction`.     *)
(* A UseState cell has a shared `slot` (what `set` writes) and a           *)
(* `current_val` (what `get` reads): the value the slot had when the hook  *)
(* was last called, i.e. at the last render of the component.  `set`       *)
(* schedules a re-render; the re-render calls use_sorter again, which      *)
(* refreshes `current_val` from `slot`.                                    *)
(***************************************************************************)
EXTENDS Integers, Sequences, FiniteSets, TLC

\* Number of variants of the field enum F.
NumFields == 2
\* Longest run of identical consecutive calls that is counted exactly.
MaxStreak == 3
\* Longest slice of rows handed to sort.
MaxLen == 4
\* Largest value a row holds in the column it is sorted by.
MaxVal == 2

Fields == 1..NumFields

Ascending == "Ascending"
Descending == "Descending"
Direction == {Ascending, Descending}

\* enum SortBy { Fixed(Direction), Reversible(Direction) }
Fixed(dir) == [kind |-> "Fixed", dir |-> dir]
Reversible(dir) == [kind |-> "Reversible", dir |-> dir]
SortBy == {Fixed(d) : d \in Direction} \cup {Reversible(d) : d \in Direction}

\* Option<SortBy>: None is the empty sequence, Some(x) is <<x>>.
NoneV == << >>
Some(x) == <<x>>
OptionSortBy == {NoneV} \cup {Some(sb) : sb \in SortBy}

VARIABLES
    F_sort_by,  \* the field type's impl of Sortable::sort_by: Fields -> Option<SortBy>
    F_default,  \* the field type's F::default()
    field,      \* UseSorter.field     : [slot, current_val]
    direction,  \* UseSorter.direction : [slot, current_val]
    op,         \* the last call made on the sorter
    prev,       \* the sorter as it was when the last call was made
    streak,     \* how many times in a row the last call has been made
    start,      \* the sorter as it was when the first call of that run was made
    F_null_handling, \* the field type's impl of Sortable::null_handling
    F_unordered,\* the pairs of values the impl of PartialOrdBy leaves unordered
    data,       \* the rows a component loads in every render pass
    items,      \* the slice of rows handed to sort
    sorted,     \* the last sort of the slice: its arguments, its input, its end
    last,       \* the arguments of the sort before that one
    builder,    \* the UseSorterBuilder the component renders with, if it uses one
    shown,      \* the (field, direction) the header showed in the last render
    pending     \* the UseState::set calls the running handler has yet to make

sorter_vars == <<F_sort_by, F_default, field, direction, op, prev, streak, start>>
sort_vars == <<F_null_handling, F_unordered, data, items, sorted, last>>
view_vars == <<builder, shown, pending>>
vars == <<sorter_vars, sort_vars, view_vars>>

Self == [field |-> field, direction |-> direction]

UseStates(S) == [slot : S, current_val : S]
UseSorters == [field : UseStates(Fields), direction : UseStates(Direction)]

Call(name, f, dir) == [name |-> name, field |-> f, dir |-> dir]
NoDir == "-"
Calls == {Call("use_sorter", f, NoDir) : f \in Fields}
           \cup {Call("toggle_field", f, NoDir) : f \in Fields}
           \cup {Call("set_field", f, d) : f \in Fields, d \in Direction}

\* Faulty invert: the direction is returned as it is.
invert_keeps_direction(dir) == dir

\* Direction::invert
invert(dir) == IF dir = Ascending THEN Descending ELSE Ascending

\* impl Default for SortBy: increasing_or_decreasing().unwrap()
SortBy_default == Reversible(Ascending)

\* SortBy::direction
SortBy_direction(sort_by) == sort_by.dir

\* Option::unwrap_or_default as used by Direction::from_field
unwrap_or_default(opt) == IF opt = NoneV THEN SortBy_default ELSE opt[1]

\* Faulty from_field: the default descriptor's direction for every field.
from_field_ascending(f) == SortBy_direction(SortBy_default)

\* Direction::from_field
from_field(f) == SortBy_direction(unwrap_or_default(F_sort_by[f]))

\* Faulty ensure_direction: the requested direction is let through.
ensure_direction_unclamped(sort_by, dir) == dir

\* SortBy::ensure_direction
ensure_direction(sort_by, dir) ==
    IF sort_by.kind = "Fixed"
    THEN (IF sort_by.dir = dir THEN dir ELSE sort_by.dir)
    ELSE dir

\* Faulty get_state: the two cells are read from their slots.
get_state_reads_slots(self) == <<self.field.slot, self.direction.slot>>

\* UseSorter::get_state: reads both cells with UseState::get
get_state(self) == <<self.field.current_val, self.direction.current_val>>

\* The pair held by the two slots: what the next render will read.
stored(self) == <<self.field.slot, self.direction.slot>>

\* Faulty toggle_field: an unsortable field is switched to, with the default
\* descriptor.
toggle_field_unsortable(self, f) ==
    LET sort_by == unwrap_or_default(F_sort_by[f])
        dir == IF sort_by.kind = "Fixed"
               THEN sort_by.dir
               ELSE IF self.field.current_val = f
                    THEN invert(self.direction.current_val)
                    ELSE sort_by.dir
    IN  [field     |-> [self.field EXCEPT !.slot = f],
         direction |-> [self.direction EXCEPT !.slot = dir]]

\* Faulty toggle_field: a Fixed field is inverted like a Reversible one.
toggle_field_inverts_fixed(self, f) ==
    IF F_sort_by[f] = NoneV
    THEN self
    ELSE LET sort_by == F_sort_by[f][1]
             dir == IF self.field.current_val = f
                    THEN invert(self.direction.current_val)
                    ELSE sort_by.dir
         IN  [field     |-> [self.field EXCEPT !.slot = f],
              direction |-> [self.direction EXCEPT !.slot = dir]]

\* Faulty toggle_field: the active field is reset, not inverted.
toggle_field_never_inverts(self, f) ==
    IF F_sort_by[f] = NoneV
    THEN self
    ELSE LET sort_by == F_sort_by[f][1]
         IN  [field     |-> [self.field EXCEPT !.slot = f],
              direction |-> [self.direction EXCEPT !.slot = sort_by.dir]]

\* Faulty toggle_field: a newly chosen Reversible field takes over the
\* direction of the field before it.
toggle_field_keeps_direction(self, f) ==
    IF F_sort_by[f] = NoneV
    THEN self
    ELSE LET sort_by == F_sort_by[f][1]
             dir == IF sort_by.kind = "Fixed"
                    THEN sort_by.dir
                    ELSE IF self.field.current_val = f
                         THEN invert(self.direction.current_val)
                         ELSE self.direction.current_val
         IN  [field     |-> [self.field EXCEPT !.slot = f],
              direction |-> [self.direction EXCEPT !.slot = dir]]

\* UseSorter::toggle_field: the sorter after the call
toggle_field(self, f) ==
    IF F_sort_by[f] = NoneV
    THEN self
    ELSE LET sort_by == F_sort_by[f][1]
             dir == IF sort_by.kind = "Fixed"
                    THEN sort_by.dir
                    ELSE IF self.field.current_val = f
                         THEN invert(self.direction.current_val)
                         ELSE sort_by.dir
         IN  [field     |-> [self.field EXCEPT !.slot = f],
              direction |-> [self.direction EXCEPT !.slot = dir]]

\* Faulty set_field: an unsortable field is switched to.
set_field_unsortable(self, f, dir) ==
    LET sort_by == unwrap_or_default(F_sort_by[f])
        d == ensure_direction(sort_by, dir)
    IN  [field     |-> [self.field EXCEPT !.slot = f],
         direction |-> [self.direction EXCEPT !.slot = d]]

\* Faulty set_field: the field is set, the direction is left as it is.
set_field_field_only(self, f, dir) ==
    IF F_sort_by[f] = NoneV
    THEN self
    ELSE [field     |-> [self.field EXCEPT !.slot = f],
          direction |-> self.direction]

\* Faulty set_field: setting the active field again inverts its direction.
set_field_toggles(self, f, dir) ==
    IF F_sort_by[f] = NoneV
    THEN self
    ELSE LET sort_by == F_sort_by[f][1]
             d == IF sort_by.kind = "Reversible" /\ self.field.slot = f
                  THEN invert(self.direction.slot)
                  ELSE ensure_direction(sort_by, dir)
         IN  [field     |-> [self.field EXCEPT !.slot = f],
              direction |-> [self.direction EXCEPT !.slot = d]]

\* UseSorter::set_field: the sorter after the call
set_field(self, f, dir) ==
    IF F_sort_by[f] = NoneV
    THEN self
    ELSE LET sort_by == F_sort_by[f][1]
             d == ensure_direction(sort_by, dir)
         IN  [field     |-> [self.field EXCEPT !.slot = f],
              direction |-> [self.direction EXCEPT !.slot = d]]

(***************************************************************************)
(* The older snapshot of the sorter in lib.rs.  Its descriptor is a        *)
(* SortOptions value; the constructors of SortBy bear the same names in    *)
(* both snapshots, which is how a field type of the one is read as a field *)
(* type of the other.                                                      *)
(***************************************************************************)
Unsortable == "Unsortable"
Increasing == "Increasing"
Decreasing == "Decreasing"
IncreasingOrDecreasing == "IncreasingOrDecreasing"
DecreasingOrIncreasing == "DecreasingOrIncreasing"
SortOptions ==
    {Unsortable, Increasing, Decreasing, IncreasingOrDecreasing,
     DecreasingOrIncreasing}

\* new.sort_by().options: SortBy::unsortable(), increasing(), decreasing(),
\* increasing_or_decreasing() and decreasing_or_increasing() of lib.rs for
\* the constructor of the same name of use_sorter.rs.
options(f) ==
    IF F_sort_by[f] = NoneV THEN Unsortable
    ELSE IF F_sort_by[f][1] = Fixed(Ascending) THEN Increasing
    ELSE IF F_sort_by[f][1] = Fixed(Descending) THEN Decreasing
    ELSE IF F_sort_by[f][1] = Reversible(Ascending) THEN IncreasingOrDecreasing
    ELSE DecreasingOrIncreasing

\* SortOptions::initial_direction; Direction::default() is Ascending.
initial_direction(o) ==
    IF o = Unsortable THEN Ascending
    ELSE IF o = Increasing THEN Ascending
    ELSE IF o = Decreasing THEN Descending
    ELSE IF o = IncreasingOrDecreasing THEN Ascending
    ELSE Descending

\* UseState::modify: the closure, a function of the value, is applied to the
\* value in the slot.
UseState_modify(state, closure) == [state EXCEPT !.slot = closure[state.slot]]

\* Sorter::set_field(new) of lib.rs: the sorter after the call.
Sorter_set_field(self, new) ==
    LET sort_by == options(new)
    IN  IF sort_by = Unsortable
        THEN self
        ELSE IF self.field.current_val = new
        THEN (IF sort_by = IncreasingOrDecreasing \/ sort_by = DecreasingOrIncreasing
              THEN [self EXCEPT !.direction = UseState_modify(self.direction,
                                                  [v \in Direction |-> invert(v)])]
              ELSE self)
        ELSE [field     |-> [self.field EXCEPT !.slot = new],
              direction |-> [self.direction EXCEPT
                                !.slot = initial_direction(sort_by)]]

\* use_sorter, first render: both hooks are created from F::default()
use_sorter_init ==
    [field     |-> [slot |-> F_default, current_val |-> F_default],
     direction |-> [slot |-> from_field(F_default),
                    current_val |-> from_field(F_default)]]

\* use_sorter, later renders: use_state hands back the hook with
\* current_val refreshed from the slot
use_sorter_again(self) ==
    [field     |-> [self.field EXCEPT !.current_val = self.field.slot],
     direction |-> [self.direction EXCEPT !.current_val = self.direction.slot]]


(***************************************************************************)
(* Rows and their comparison.  A row is given by the value it holds in the *)
(* column it is compared by (`key`; NaN is the value f64::partial_cmp      *)
(* cannot order) and by a `tag` that stands for the rest of the row and    *)
(* tells rows with equal keys apart.                                       *)
(***************************************************************************)
NaN == 0
Keys == {NaN} \cup (1..MaxVal)
Row(k, t) == [key |-> k, tag |-> t]
Rows == [key : Keys, tag : 1..MaxLen]
\* The slices a component can hand to sort: row i carries tag i.
Slices ==
    UNION {{[i \in 1..n |-> Row(ks[i], i)] : ks \in [1..n -> Keys]} : n \in 0..MaxLen}

First == "First"
Last == "Last"
NullHandling == {First, Last}
\* impl Default for NullHandling
NullHandling_default == Last

Less == "Less"
Equal == "Equal"
Greater == "Greater"
\* Ordering::reverse
reverse(o) == IF o = Less THEN Greater ELSE IF o = Greater THEN Less ELSE Equal

\* The pairs of distinct non-NaN values: an impl of PartialOrdBy that leaves
\* one of them unordered breaks its contract.
ValuePairs == {{a, b} : a, b \in 1..MaxVal} \ {{a} : a \in 1..MaxVal}

\* PartialOrdBy::partial_cmp_by for field f: f64::partial_cmp on the keys,
\* except that the pairs in F_unordered get no ordering either.
partial_cmp_by(f, a, b) ==
    IF a.key = NaN \/ b.key = NaN \/ {a.key, b.key} \in F_unordered
    THEN NoneV
    ELSE IF a.key < b.key THEN Some(Less)
    ELSE IF a.key > b.key THEN Some(Greater)
    ELSE Some(Equal)

Unreachable == "unreachable!"

\* Faulty compare: the direction is applied to the null ordering too.
compare_reverses_nulls(f, dir, nulls, a, b) ==
    LET partial == partial_cmp_by(f, a, b)
        a_is_null == partial_cmp_by(f, a, a) = NoneV
        b_is_null == partial_cmp_by(f, b, b) = NoneV
        o == IF partial # NoneV THEN partial[1]
             ELSE IF a_is_null /\ b_is_null THEN Equal
             ELSE IF a_is_null THEN (IF nulls = First THEN Less ELSE Greater)
             ELSE IF b_is_null THEN (IF nulls = First THEN Greater ELSE Less)
             ELSE Unreachable
    IN  IF dir = Ascending THEN o ELSE reverse(o)

\* Faulty compare: the direction is ignored.
compare_ignores_direction(f, dir, nulls, a, b) ==
    LET partial == partial_cmp_by(f, a, b)
        a_is_null == partial_cmp_by(f, a, a) = NoneV
        b_is_null == partial_cmp_by(f, b, b) = NoneV
    IN  IF partial # NoneV THEN partial[1]
        ELSE IF a_is_null /\ b_is_null THEN Equal
        ELSE IF a_is_null THEN (IF nulls = First THEN Less ELSE Greater)
        ELSE IF b_is_null THEN (IF nulls = First THEN Greater ELSE Less)
        ELSE Unreachable

\* Faulty compare: an unordered pair of non-null rows counts as Equal.
compare_coerces_to_equal(f, dir, nulls, a, b) ==
    LET partial == partial_cmp_by(f, a, b)
        a_is_null == partial_cmp_by(f, a, a) = NoneV
        b_is_null == partial_cmp_by(f, b, b) = NoneV
    IN  IF partial # NoneV
        THEN (IF dir = Ascending THEN partial[1] ELSE reverse(partial[1]))
        ELSE IF a_is_null /\ b_is_null THEN Equal
        ELSE IF a_is_null THEN (IF nulls = First THEN Less ELSE Greater)
        ELSE IF b_is_null THEN (IF nulls = First THEN Greater ELSE Less)
        ELSE Equal

\* Faulty compare: a null row on the right is treated as one on the left.
compare_one_sided_nulls(f, dir, nulls, a, b) ==
    LET partial == partial_cmp_by(f, a, b)
        a_is_null == partial_cmp_by(f, a, a) = NoneV
        b_is_null == partial_cmp_by(f, b, b) = NoneV
    IN  IF partial # NoneV
        THEN (IF dir = Ascending THEN partial[1] ELSE reverse(partial[1]))
        ELSE IF a_is_null /\ b_is_null THEN Equal
        ELSE IF a_is_null THEN (IF nulls = First THEN Less ELSE Greater)
        ELSE IF b_is_null THEN (IF nulls = First THEN Less ELSE Greater)
        ELSE Unreachable

\* The closure sort_by hands to slice::sort_by: an Ordering, or the
\* unreachable!() panic.
compare(f, dir, nulls, a, b) ==
    LET partial == partial_cmp_by(f, a, b)
        a_is_null == partial_cmp_by(f, a, a) = NoneV
        b_is_null == partial_cmp_by(f, b, b) = NoneV
    IN  IF partial # NoneV
        THEN (IF dir = Ascending THEN partial[1] ELSE reverse(partial[1]))
        ELSE IF a_is_null /\ b_is_null THEN Equal
        ELSE IF a_is_null THEN (IF nulls = First THEN Less ELSE Greater)
        ELSE IF b_is_null THEN (IF nulls = First THEN Greater ELSE Less)
        ELSE Unreachable

\* slice::sort_by on a short slice is an insertion sort.  insert_tail puts x
\* behind the sorted run p: x moves left past the k last rows of p it is Less
\* than, and stops at the first it is not Less than; a panic of the closure
\* leaves x where it got to.
RECURSIVE insert_tail(_, _, _, _, _, _)
insert_tail(f, dir, nulls, p, x, k) ==
    LET at == Len(p) - k
        put == SubSeq(p, 1, at) \o <<x>> \o SubSeq(p, at + 1, Len(p))
    IN  IF at = 0
        THEN [items |-> put, panicked |-> FALSE]
        ELSE LET o == compare(f, dir, nulls, x, p[at])
             IN  IF o = Unreachable THEN [items |-> put, panicked |-> TRUE]
                 ELSE IF o = Less THEN insert_tail(f, dir, nulls, p, x, k + 1)
                 ELSE [items |-> put, panicked |-> FALSE]

\* The insertion sort from row i on, the rows before i being sorted.
RECURSIVE insertion_sort(_, _, _, _, _)
insertion_sort(f, dir, nulls, v, i) ==
    IF i > Len(v)
    THEN [items |-> v, panicked |-> FALSE]
    ELSE LET r == insert_tail(f, dir, nulls, SubSeq(v, 1, i - 1), v[i], 0)
             w == r.items \o SubSeq(v, i + 1, Len(v))
         IN  IF r.panicked
             THEN [items |-> w, panicked |-> TRUE]
             ELSE insertion_sort(f, dir, nulls, w, i + 1)

\* Faulty sort_by: the slice is sorted and then reversed when descending.
sort_by_reverses_slice(f, dir, nulls, v) ==
    LET r == insertion_sort(f, Ascending, nulls, v, 2)
    IN  IF dir = Ascending \/ r.panicked THEN r
        ELSE [items |-> [i \in 1..Len(v) |-> r.items[Len(v) + 1 - i]],
              panicked |-> FALSE]

\* Faulty sort_by: the comparator is tried on every pair of values before
\* the slice is looked at.
sort_by_rejects_comparator(f, dir, nulls, v) ==
    IF F_unordered # {}
    THEN [items |-> v, panicked |-> TRUE]
    ELSE insertion_sort(f, dir, nulls, v, 2)

\* Faulty sort_by: the slice is sorted from its far end, so that rows that
\* compare Equal change places.
sort_by_from_far_end(f, dir, nulls, v) ==
    insertion_sort(f, dir, nulls, [i \in 1..Len(v) |-> v[Len(v) + 1 - i]], 2)

\* Faulty sort_by: the null rows are left out.
sort_by_drops_nulls(f, dir, nulls, v) ==
    insertion_sort(f, dir, nulls,
                   SelectSeq(v, LAMBDA r : partial_cmp_by(f, r, r) # NoneV), 2)

\* fn sort_by(sort_by: &F, dir, nulls, items): the slice after the call, and
\* whether the call panicked.
sort_by(f, dir, nulls, v) == insertion_sort(f, dir, nulls, v, 2)

\* What a sort_by call leaves on record: its arguments and whether it
\* panicked (r is what the call made of the slice v).
SortRecord(f, dir, nulls, v, r) ==
    [field |-> f, dir |-> dir, nulls |-> nulls, input |-> v,
     panicked |-> r.panicked]


\* Faulty sort: the field and the direction are read from the slots and not
\* through get_state.
sort_reads_slots(self, v) ==
    LET f == stored(self)[1]
        dir == stored(self)[2]
        r == sort_by(f, dir, F_null_handling[f], v)
    IN  [self |-> self, field |-> f, dir |-> dir, nulls |-> F_null_handling[f],
         items |-> r.items, panicked |-> r.panicked]

\* Faulty sort: the direction of the field is stored afresh.
sort_resets_direction(self, v) ==
    LET f == get_state(self)[1]
        dir == get_state(self)[2]
        r == sort_by(f, dir, F_null_handling[f], v)
    IN  [self |-> [self EXCEPT !.direction.slot = from_field(f)],
         field |-> f, dir |-> dir, nulls |-> F_null_handling[f],
         items |-> r.items, panicked |-> r.panicked]

\* Faulty sort: the rows are always sorted ascending.
sort_ignores_direction(self, v) ==
    LET f == get_state(self)[1]
        r == sort_by(f, Ascending, F_null_handling[f], v)
    IN  [self |-> self, field |-> f, dir |-> Ascending,
         nulls |-> F_null_handling[f],
         items |-> r.items, panicked |-> r.panicked]

\* Faulty sort: the null handling is the default one, whatever the field.
sort_default_nulls(self, v) ==
    LET f == get_state(self)[1]
        dir == get_state(self)[2]
        r == sort_by(f, dir, NullHandling_default, v)
    IN  [self |-> self, field |-> f, dir |-> dir, nulls |-> NullHandling_default,
         items |-> r.items, panicked |-> r.panicked]

\* UseSorter::sort(&self, items): the sorter after the call, the arguments
\* handed to sort_by, the slice after the call and whether it panicked.
sort(self, v) ==
    LET f == get_state(self)[1]
        dir == get_state(self)[2]
        r == sort_by(f, dir, F_null_handling[f], v)
    IN  [self |-> self, field |-> f, dir |-> dir, nulls |-> F_null_handling[f],
         items |-> r.items, panicked |-> r.panicked]

\* struct UseSorterBuilder { field, direction } and its Default impl.
UseSorterBuilders == [field : Fields, direction : Direction]
UseSorterBuilder_default ==
    [field |-> F_default, direction |-> from_field(F_default)]
with_field(b, f) == [b EXCEPT !.field = f]
with_direction(b, dir) == [b EXCEPT !.direction = dir]

\* UseSorterBuilder::use_sorter(self, cx): use_sorter(cx), which creates the
\* hooks in the first render pass and refreshes them in every later one, and
\* then set_field with the presets.
builder_use_sorter(b, self, mounted) ==
    set_field(IF mounted THEN use_sorter_again(self) ELSE use_sorter_init,
              b.field, b.direction)


\* UseState::set on one of the two cells of the sorter: w names the cell and
\* the value.
UseState_set(self, w) == [self EXCEPT ![w.cell].slot = w.val]

\* The UseState::set calls of toggle_field, in the order the code makes
\* them, each with the value the code computes for it: self.direction.set
\* in the arm of the descriptor, then self.field.set.
toggle_field_sets(self, f) ==
    IF F_sort_by[f] = NoneV
    THEN << >>
    ELSE LET by == F_sort_by[f][1]
         IN  IF by.kind = "Fixed"
             THEN <<[cell |-> "direction", val |-> by.dir],
                    [cell |-> "field", val |-> f]>>
             ELSE <<[cell |-> "direction",
                     val |-> IF self.field.current_val = f
                             THEN invert(self.direction.current_val)
                             ELSE by.dir],
                    [cell |-> "field", val |-> f]>>

\* The UseState::set calls of set_field, in the order the code makes them:
\* self.field.set, then self.direction.set with the direction that
\* ensure_direction returned.
set_field_sets(self, f, dir) ==
    IF F_sort_by[f] = NoneV
    THEN << >>
    ELSE <<[cell |-> "field", val |-> f],
           [cell |-> "direction",
            val |-> ensure_direction(F_sort_by[f][1], dir)]>>

\* An event handler runs to its end before the component renders again:
\* toggle_field and set_field are synchronous and UseState::set only
\* schedules the render.
handler_returned == pending = << >>

\* What ThStatus renders, as the sequence of its elements: nothing, or one
\* ThSpan with an arrow that is marked active or not.  ArrowDown is the arrow of Ascending, ArrowUp the arrow
\* of Descending, ArrowBoth the double-headed arrow.
ArrowDown == "down"
ArrowUp == "up"
ArrowBoth == "up-down"
Nothing == << >>
ThSpan(active, arrow) == <<[active |-> active, arrow |-> arrow]>>

\* Faulty ThStatus: the active field and direction are read from the slots.
ThStatus_reads_slots(self, f) ==
    LET active == stored(self)[1] = f
        active_dir == stored(self)[2]
    IN  IF F_sort_by[f] = NoneV THEN Nothing
        ELSE IF F_sort_by[f][1] = Fixed(Ascending) THEN ThSpan(active, ArrowDown)
        ELSE IF F_sort_by[f][1] = Fixed(Descending) THEN ThSpan(active, ArrowUp)
        ELSE ThSpan(active,
                    IF active /\ active_dir = Ascending THEN ArrowDown
                    ELSE IF active /\ active_dir = Descending THEN ArrowUp
                    ELSE ArrowBoth)

\* ThStatus for the header of field f.
ThStatus(self, f) ==
    LET active == get_state(self)[1] = f
        active_dir == get_state(self)[2]
    IN  IF F_sort_by[f] = NoneV THEN Nothing
        ELSE IF F_sort_by[f][1] = Fixed(Ascending) THEN ThSpan(active, ArrowDown)
        ELSE IF F_sort_by[f][1] = Fixed(Descending) THEN ThSpan(active, ArrowUp)
        ELSE ThSpan(active,
                    IF active /\ active_dir = Ascending THEN ArrowDown
                    ELSE IF active /\ active_dir = Descending THEN ArrowUp
                    ELSE ArrowBoth)

TypeOK ==
    /\ F_sort_by \in [Fields -> OptionSortBy]
    /\ F_default \in Fields
    /\ Self \in UseSorters
    /\ op \in Calls
    /\ prev \in UseSorters
    /\ start \in UseSorters
    /\ streak \in 1..MaxStreak
    /\ F_null_handling \in [Fields -> NullHandling]
    /\ F_unordered \subseteq ValuePairs
    /\ data \in Seq(Rows)
    /\ items \in Seq(Rows)
    /\ Len(sorted) <= 1
    /\ Len(last) <= 1
    /\ Len(builder) <= 1
    /\ Len(shown) <= 1
    /\ Len(pending) <= 2

\* A component that does not sort and renders with use_sorter.
NoSort ==
    /\ F_null_handling = [f \in Fields |-> NullHandling_default]
    /\ F_unordered = {}
    /\ data = << >>
    /\ items = << >>
    /\ sorted = NoneV
    /\ last = NoneV
NoView ==
    /\ builder = NoneV
    /\ shown = NoneV
    /\ pending = << >>

Init ==
    /\ F_sort_by \in [Fields -> OptionSortBy]
    /\ F_default \in Fields
    /\ field = use_sorter_init.field
    /\ direction = use_sorter_init.direction
    /\ op = Call("use_sorter", F_default, NoDir)
    /\ prev = use_sorter_init
    /\ streak = 1
    /\ start = use_sorter_init
    /\ NoSort
    /\ NoView

\* Bookkeeping of a call c made on the sorter.
Record(c) ==
    /\ op' = c
    /\ prev' = Self
    /\ streak' = IF op = c
                 THEN (IF streak < MaxStreak THEN streak + 1 ELSE MaxStreak)
                 ELSE 1
    /\ start' = IF op = c THEN start ELSE Self

\* An event handler calls sorter.toggle_field(f).
ToggleField(f) ==
    /\ field' = toggle_field(Self, f).field
    /\ direction' = toggle_field(Self, f).direction
    /\ Record(Call("toggle_field", f, NoDir))
    /\ UNCHANGED <<F_sort_by, F_default, sort_vars, view_vars>>

\* An event handler calls sorter.set_field(f, dir).
SetField(f, dir) ==
    /\ field' = set_field(Self, f, dir).field
    /\ direction' = set_field(Self, f, dir).direction
    /\ Record(Call("set_field", f, dir))
    /\ UNCHANGED <<F_sort_by, F_default, sort_vars, view_vars>>

\* The re-render scheduled by a set: the component calls use_sorter again.
Render ==
    /\ stored(Self) # get_state(Self)
    /\ field' = use_sorter_again(Self).field
    /\ direction' = use_sorter_again(Self).direction
    /\ UNCHANGED <<F_sort_by, F_default, op, prev, streak, start>>
    /\ UNCHANGED <<sort_vars, view_vars>>

Next ==
    \/ \E f \in Fields : ToggleField(f)
    \/ \E f \in Fields, dir \in Direction : SetField(f, dir)
    \/ Render

Spec == Init /\ [][Next]_vars

(***************************************************************************)
(* sort_by called on a slice as tests::test_sort_by calls it: directly,    *)
(* again and again on the same slice, with any direction and null          *)
(* handling, for the default field of a one-column field type.             *)
(***************************************************************************)
InitSort ==
    /\ F_sort_by = [f \in Fields |-> Some(SortBy_default)]
    /\ F_default = 1
    /\ field = use_sorter_init.field
    /\ direction = use_sorter_init.direction
    /\ op = Call("use_sorter", F_default, NoDir)
    /\ prev = use_sorter_init
    /\ streak = 1
    /\ start = use_sorter_init
    /\ F_null_handling = [f \in Fields |-> NullHandling_default]
    /\ F_unordered \in SUBSET ValuePairs
    /\ items \in Slices
    /\ data = items
    /\ sorted = NoneV
    /\ last = NoneV
    /\ NoView

\* What is kept of a sort once another has followed it: its arguments.
Earlier(s) ==
    IF s = NoneV THEN NoneV
    ELSE Some([field |-> s[1].field, dir |-> s[1].dir, nulls |-> s[1].nulls])

\* The last sort ended in the unreachable!() panic.
Panicked == sorted # NoneV /\ sorted[1].panicked

\* sort_by(&Value, dir, nulls, rows.as_mut_slice()); a panic ends the test.
CallSortBy(dir, nulls) ==
    /\ ~Panicked
    /\ \E r \in {sort_by(F_default, dir, nulls, items)} :
           /\ items' = r.items
           /\ sorted' = Some(SortRecord(F_default, dir, nulls, items, r))
    /\ last' = Earlier(sorted)
    /\ UNCHANGED <<sorter_vars, F_null_handling, F_unordered, data, view_vars>>

NextSort == \E dir \in Direction, nulls \in NullHandling : CallSortBy(dir, nulls)

SpecSort == InitSort /\ [][NextSort]_vars

(***************************************************************************)
(* A table component as in examples/table.rs and prime_ministers.rs.       *)
(* Every render pass loads the rows, obtains the sorter (from use_sorter,  *)
(* or from a UseSorterBuilder with presets), sorts the rows and renders    *)
(* the headers, whose status reads get_state.  Between render passes       *)
(* the headers' click handlers call toggle_field and other handlers call   *)
(* set_field.  The fields being interchangeable, the default field is      *)
(* field 1; the comparator keeps its contract.                             *)
(***************************************************************************)
\* The rows the component loads: the values from MaxVal down with the null
\* value last, or the null value first and the values from 1 up.
Datasets ==
    {v \in Slices :
        /\ Len(v) = MaxLen
        /\ \/ \A i \in DOMAIN v : v[i].key = (MaxVal + MaxLen - i) % (MaxVal + 1)
           \/ \A i \in DOMAIN v : v[i].key = (i - 1) % (MaxVal + 1)}

\* Null handlings as in the examples: the default for every field, or nulls
\* first for the last field only.
NullHandlings ==
    {[f \in Fields |-> NullHandling_default],
     [f \in Fields |-> IF f = NumFields THEN First ELSE NullHandling_default]}

\* The sorter a render pass works with.
Hooks(mounted) ==
    IF builder = NoneV
    THEN (IF mounted THEN use_sorter_again(Self) ELSE use_sorter_init)
    ELSE builder_use_sorter(builder[1], Self, mounted)

\* The first render pass, in which the hooks are created.
FirstRender ==
    /\ op = Call("use_sorter", F_default, NoDir)
    /\ prev = use_sorter_init
    /\ streak = 1
    /\ start = use_sorter_init
    /\ last = NoneV
    /\ pending = << >>
    /\ \E r \in {sort(Hooks(FALSE), data)} :
           /\ field = r.self.field
           /\ direction = r.self.direction
           /\ items = r.items
           /\ sorted = Some(SortRecord(r.field, r.dir, r.nulls, data, r))
           /\ shown = Some(get_state(r.self))

InitView ==
    /\ F_sort_by \in [Fields -> OptionSortBy]
    /\ F_default = 1
    /\ F_null_handling \in NullHandlings
    /\ F_unordered = {}
    /\ data \in Datasets
    /\ builder = NoneV
    /\ FirstRender

\* A render pass after the first.
RenderView ==
    /\ \E r \in {sort(Hooks(TRUE), data)} :
           /\ field' = r.self.field
           /\ direction' = r.self.direction
           /\ items' = r.items
           /\ sorted' = Some(SortRecord(r.field, r.dir, r.nulls, data, r))
           /\ shown' = Some(get_state(r.self))
    /\ last' = Earlier(sorted)
    /\ UNCHANGED <<F_sort_by, F_default, op, prev, streak, start>>
    /\ UNCHANGED <<F_null_handling, F_unordered, data, builder, pending>>

\* onclick of Th: sorter.toggle_field(field).
ClickTh(f) ==
    /\ field' = toggle_field(Self, f).field
    /\ direction' = toggle_field(Self, f).direction
    /\ op' = Call("toggle_field", f, NoDir)
    /\ UNCHANGED <<F_sort_by, F_default, prev, streak, start, sort_vars, view_vars>>

\* A handler that restores a state: sorter.set_field(field, dir).
Restore(f, dir) ==
    /\ field' = set_field(Self, f, dir).field
    /\ direction' = set_field(Self, f, dir).direction
    /\ op' = Call("set_field", f, dir)
    /\ UNCHANGED <<F_sort_by, F_default, prev, streak, start, sort_vars, view_vars>>

NextView ==
    \/ RenderView
    \/ \E f \in Fields : ClickTh(f)
    \/ \E f \in Fields, dir \in Direction : Restore(f, dir)

SpecView == InitView /\ [][NextView]_vars

(***************************************************************************)
(* The same component for every choice of how it obtains its sorter: from  *)
(* use_sorter, or as examples/table.rs does from                           *)
(* UseSorterBuilder::default().with_field(f).with_direction(dir), for      *)
(* every f and dir.  The fields have the default null handling and the     *)
(* rows are the ones that begin with the null row.                         *)
(***************************************************************************)
InitBuilder ==
    /\ F_sort_by \in [Fields -> OptionSortBy]
    /\ F_default = 1
    /\ F_null_handling = [f \in Fields |-> NullHandling_default]
    /\ F_unordered = {}
    /\ data \in {v \in Datasets : v[1].key = NaN}
    /\ builder \in {NoneV} \cup
           {Some(with_direction(with_field(UseSorterBuilder_default, f), dir)) :
                f \in Fields, dir \in Direction}
    /\ FirstRender

SpecBuilder == InitBuilder /\ [][NextView]_vars

(***************************************************************************)
(* The calls of toggle_field and set_field taken apart into their two      *)
(* UseState::set calls.  A handler calls toggle_field or set_field, which  *)
(* reads the sorter and then writes one cell after the other.  A holder of *)
(* the sorter (UseSorter is Copy) may call get_state at any point, also    *)
(* between the two writes; the component renders again once the handler    *)
(* has returned.  `shown` is the pair that was read since the sorter's     *)
(* last step, if one was.                                                  *)
(***************************************************************************)
\* A handler calls sorter.toggle_field(f): the call has read the sorter.
BeginToggleField(f) ==
    /\ pending = << >>
    /\ pending' = toggle_field_sets(Self, f)
    /\ op' = Call("toggle_field", f, NoDir)
    /\ prev' = Self
    /\ shown' = NoneV
    /\ UNCHANGED <<F_sort_by, F_default, field, direction, streak, start>>
    /\ UNCHANGED <<sort_vars, builder>>

\* A handler calls sorter.set_field(f, dir).
BeginSetField(f, dir) ==
    /\ pending = << >>
    /\ pending' = set_field_sets(Self, f, dir)
    /\ op' = Call("set_field", f, dir)
    /\ prev' = Self
    /\ shown' = NoneV
    /\ UNCHANGED <<F_sort_by, F_default, field, direction, streak, start>>
    /\ UNCHANGED <<sort_vars, builder>>

\* The call makes its next UseState::set.
SetCell ==
    /\ pending # << >>
    /\ field' = UseState_set(Self, Head(pending)).field
    /\ direction' = UseState_set(Self, Head(pending)).direction
    /\ pending' = Tail(pending)
    /\ shown' = NoneV
    /\ UNCHANGED <<F_sort_by, F_default, op, prev, streak, start>>
    /\ UNCHANGED <<sort_vars, builder>>

\* A holder of the sorter calls sorter.get_state(), at any point of a call
\* or between calls.
GetState ==
    /\ shown' = Some(get_state(Self))
    /\ UNCHANGED <<sorter_vars, sort_vars, builder, pending>>

\* The component renders again: use_sorter refreshes both cells and the
\* headers read get_state.
RenderCells ==
    /\ handler_returned
    /\ stored(Self) # get_state(Self)
    /\ field' = use_sorter_again(Self).field
    /\ direction' = use_sorter_again(Self).direction
    /\ shown' = Some(get_state(use_sorter_again(Self)))
    /\ UNCHANGED <<F_sort_by, F_default, op, prev, streak, start>>
    /\ UNCHANGED <<sort_vars, builder, pending>>

NextCells ==
    \/ \E f \in Fields : BeginToggleField(f)
    \/ \E f \in Fields, dir \in Direction : BeginSetField(f, dir)
    \/ SetCell
    \/ GetState
    \/ RenderCells

SpecCells == Init /\ [][NextCells]_vars

(***************************************************************************)
(* Properties of the (field, direction) state machine.                     *)
(***************************************************************************)

Sortable(f) == F_sort_by[f] # NoneV
IsFixed(f) == Sortable(f) /\ F_sort_by[f][1].kind = "Fixed"
IsReversible(f) == Sortable(f) /\ F_sort_by[f][1].kind = "Reversible"
\* The direction carried by the descriptor of a sortable field.
DescrDir(f) == F_sort_by[f][1].dir
Other(dir) == IF dir = Ascending THEN Descending ELSE Ascending
\* The handle reads what is stored: the view has rendered since the last change.
Fresh(self) == get_state(self) = stored(self)

\* C1: in every reachable state, if the descriptor of the active field is
\* Fixed(d) then the direction held with it is d; this is so for the pair in
\* the slots and for the pair get_state reports.
FixedNeverLeavesDirection ==
    \A pair \in {stored(Self), get_state(Self)} :
        IsFixed(pair[1]) => pair[2] = DescrDir(pair[1])

\* Witness of C1: set_field asked a Fixed field for the other direction, the
\* field became active and the direction is the fixed one.
FixedNeverLeavesDirection_witness ==
    /\ op.name = "set_field"
    /\ IsFixed(op.field)
    /\ op.dir # DescrDir(op.field)
    /\ prev.field.slot # op.field
    /\ stored(Self) = <<op.field, DescrDir(op.field)>>

\* C2 as stated: in every reachable state, the initial one included, the
\* active field has a descriptor.
ActiveFieldIsSortable ==
    Sortable(field.slot)

\* C2 as amended: toggle_field and set_field never make an unsortable field
\* active; an active field is without descriptor only when it is F::default()
\* and the sorter is still in the state use_sorter created.
UnsortableActiveOnlyAsDefault ==
    /\ ~Sortable(field.slot) =>
           /\ field.slot = F_default
           /\ Self = use_sorter_init
    /\ ~Sortable(field.current_val) => field.current_val = F_default

\* Witness of C2: toggle_field was called on an unsortable field that is not
\* the default, after another field had been made active, and it is not active.
UnsortableActiveOnlyAsDefault_witness ==
    /\ op.name = "toggle_field"
    /\ ~Sortable(op.field)
    /\ op.field # F_default
    /\ Sortable(field.slot)
    /\ Self # use_sorter_init

\* C3: the state use_sorter creates is (F::default(), d), d being the direction
\* of the descriptor Fixed(d) or Reversible(d) of F::default().
InitialStateFromDefault ==
    op.name = "use_sorter" =>
        /\ field.slot = F_default
        /\ field.current_val = F_default
        /\ Sortable(F_default) =>
               /\ direction.slot = DescrDir(F_default)
               /\ direction.current_val = DescrDir(F_default)

\* Witness of C3: a sorter just created for a type whose default field is
\* Descending.
InitialStateFromDefault_witness ==
    /\ op.name = "use_sorter"
    /\ Sortable(F_default)
    /\ DescrDir(F_default) = Descending
    /\ stored(Self) = <<F_default, Descending>>

\* C4: a toggle_field or set_field call on a field without descriptor leaves
\* the active field and the direction as they were.
UnsortableCallIsNoOp ==
    (op.name \in {"toggle_field", "set_field"} /\ ~Sortable(op.field)) =>
        stored(Self) = stored(prev)

\* Witness of C4: set_field was called on an unsortable, inactive field with a
\* direction other than the current one, and nothing changed.
UnsortableCallIsNoOp_witness ==
    /\ op.name = "set_field"
    /\ ~Sortable(op.field)
    /\ stored(prev) = stored(Self)
    /\ field.slot # op.field
    /\ direction.slot # op.dir

\* C5: after toggle_field(f) on a field with descriptor Fixed(d) the state is
\* (f, d), whatever it was before and however often the call is repeated.
ToggleFixedYieldsFixed ==
    (op.name = "toggle_field" /\ IsFixed(op.field)) =>
        stored(Self) = <<op.field, DescrDir(op.field)>>

\* Witness of C5: a Fixed field toggled three times in a row, active already
\* before the last call, still in its fixed direction.
ToggleFixedYieldsFixed_witness ==
    /\ op.name = "toggle_field"
    /\ IsFixed(op.field)
    /\ streak = 3
    /\ get_state(prev) = <<op.field, DescrDir(op.field)>>
    /\ stored(Self) = <<op.field, DescrDir(op.field)>>

\* C6: after toggle_field(f) on a Reversible field f that was the current
\* field (as get_state reports it) the state is (f, the inverse of the current
\* direction).
ToggleActiveInverts ==
    (op.name = "toggle_field" /\ IsReversible(op.field)
        /\ get_state(prev)[1] = op.field) =>
        stored(Self) = <<op.field, Other(get_state(prev)[2])>>

\* Witness of C6: the active Reversible field, sorted in its initial
\* direction and rendered so, was toggled and is now sorted the other way.
ToggleActiveInverts_witness ==
    /\ op.name = "toggle_field"
    /\ IsReversible(op.field)
    /\ Fresh(prev)
    /\ stored(prev) = <<op.field, DescrDir(op.field)>>
    /\ stored(Self) = <<op.field, Other(DescrDir(op.field))>>

\* C7: after toggle_field(f) on a field with descriptor Reversible(d) that was
\* not the current field the state is (f, d), whatever the direction of the
\* previous field.
ToggleOtherResets ==
    (op.name = "toggle_field" /\ IsReversible(op.field)
        /\ get_state(prev)[1] # op.field) =>
        stored(Self) = <<op.field, DescrDir(op.field)>>

\* Witness of C7: the previous field was sorted in the direction opposite to
\* the new field's initial one.
ToggleOtherResets_witness ==
    /\ op.name = "toggle_field"
    /\ IsReversible(op.field)
    /\ Fresh(prev)
    /\ prev.field.slot # op.field
    /\ prev.direction.slot # DescrDir(op.field)
    /\ stored(Self) = <<op.field, DescrDir(op.field)>>

\* C8 as stated, for the field it can hold for, the active one: two
\* toggle_field(f) calls in a row on the active Reversible field f, made on
\* a sorter that reported its stored state before the first, bring the
\* direction back to what it was before the first, whether or not the view
\* rendered between the two.
ToggleTwiceRestores ==
    (op.name = "toggle_field" /\ IsReversible(op.field) /\ streak = 2
        /\ start.field.slot = op.field /\ Fresh(start)) =>
        direction.slot = start.direction.slot

\* What holds of the two calls: when the view rendered after the first, so
\* that the second is made through a handle that reports what the first
\* stored, the direction is back at what it was.
ToggleActiveTwiceRestores ==
    (op.name = "toggle_field" /\ IsReversible(op.field) /\ streak = 2
        /\ start.field.slot = op.field /\ Fresh(start) /\ Fresh(prev)) =>
        stored(Self) = <<op.field, start.direction.slot>>

\* C9: after set_field(f, d) on a sortable field the state is (f, allowed)
\* when the descriptor is Fixed(allowed) and (f, d) when it is Reversible.
SetFieldClampsOrKeeps ==
    (op.name = "set_field" /\ Sortable(op.field)) =>
        /\ field.slot = op.field
        /\ IsFixed(op.field) => direction.slot = DescrDir(op.field)
        /\ IsReversible(op.field) => direction.slot = op.dir

\* Witness of C9: a Reversible field set to the direction that is neither
\* its initial one nor the one stored before.
SetFieldClampsOrKeeps_witness ==
    /\ op.name = "set_field"
    /\ IsReversible(op.field)
    /\ op.dir # DescrDir(op.field)
    /\ op.dir # prev.direction.slot
    /\ stored(Self) = <<op.field, op.dir>>

\* The (field, direction) pairs a sorter of this field type can hold.
LegalPairs ==
    {p \in Fields \X Direction :
        /\ ~Sortable(p[1]) => p = stored(use_sorter_init)
        /\ IsFixed(p[1]) => p[2] = DescrDir(p[1])}
\* The sorter that holds pair p and has rendered it.
SorterAt(p) ==
    [field     |-> [slot |-> p[1], current_val |-> p[1]],
     direction |-> [slot |-> p[2], current_val |-> p[2]]]

\* C10 as stated: the state after set_field(f, d) is the same from every
\* state of the sorter, and a second set_field(f, d) in a row changes nothing.
SetFieldIgnoresState ==
    op.name = "set_field" =>
        /\ \A p \in LegalPairs :
               stored(set_field(SorterAt(p), op.field, op.dir)) = stored(Self)
        /\ streak >= 2 => stored(Self) = stored(prev)

\* C10 as amended: for a sortable field f the state after set_field(f, d) is
\* the same from every state of the sorter; for every field a second
\* set_field(f, d) in a row changes nothing.
SetFieldIsAbsolute ==
    op.name = "set_field" =>
        /\ Sortable(op.field) =>
               \A p \in LegalPairs :
                   stored(set_field(SorterAt(p), op.field, op.dir)) = stored(Self)
        /\ streak >= 2 => stored(Self) = stored(prev)

\* Witness of C10: set_field(f, d) made twice in a row on the active
\* Reversible field sorted the other way; the first call changed the
\* direction, the second did not invert it.
SetFieldIsAbsolute_witness ==
    /\ op.name = "set_field"
    /\ IsReversible(op.field)
    /\ streak = 2
    /\ Fresh(prev)
    /\ stored(start) = <<op.field, Other(op.dir)>>
    /\ stored(prev) = <<op.field, op.dir>>
    /\ stored(Self) = <<op.field, op.dir>>

(***************************************************************************)
(* Properties of sort_by.                                                  *)
(***************************************************************************)
\* A row is null under field f when it has no ordering against itself.
IsNull(f, r) == partial_cmp_by(f, r, r) = NoneV
Nulls(f, v) == {i \in DOMAIN v : IsNull(f, v[i])}
NonNulls(f, v) == DOMAIN v \ Nulls(f, v)
\* Where row r stands in slice v (rows differ in their tags).
Pos(v, r) == CHOOSE i \in DOMAIN v : v[i] = r
\* The last sort returned.
Returned == sorted # NoneV /\ ~sorted[1].panicked
\* The values of a slice, in order.
KeysOf(v) == [i \in DOMAIN v |-> v[i].key]
Reverse(v) == [i \in DOMAIN v |-> v[Len(v) + 1 - i]]

\* C12: after a sort that returned, the k null rows of the slice are its
\* first k rows under NullHandling::First and its last k rows under
\* NullHandling::Last, whatever the direction.
NullsAtTheirEnd ==
    Returned =>
        LET n == Len(items)
            k == Cardinality(Nulls(sorted[1].field, items))
        IN  \A i \in 1..n :
                IsNull(sorted[1].field, items[i])
                    <=> IF sorted[1].nulls = First THEN i <= k ELSE i > n - k

\* A descending sort with nulls first moved a null row in front of a
\* non-null one.
NullsAtTheirEnd_witness ==
    /\ Returned
    /\ sorted[1].dir = Descending
    /\ sorted[1].nulls = First
    /\ Len(items) >= 3
    /\ ~IsNull(sorted[1].field, sorted[1].input[1])
    /\ Nulls(sorted[1].field, items) # {}
    /\ Cardinality(NonNulls(sorted[1].field, items)) >= 2
    /\ IsNull(sorted[1].field, items[1])

\* C13: after a sort that returned, the non-null rows stand in
\* non-decreasing order of their values when the direction is Ascending and
\* in non-increasing order when it is Descending.
NonNullsInDirection ==
    Returned =>
        \A i, j \in NonNulls(sorted[1].field, items) :
            i < j =>
                IF sorted[1].dir = Ascending
                THEN items[i].key <= items[j].key
                ELSE items[i].key >= items[j].key

\* A descending sort put a larger value in front of a smaller one that was
\* ahead of it, a null row standing between them in the input.
NonNullsInDirection_witness ==
    /\ Returned
    /\ sorted[1].dir = Descending
    /\ Len(items) >= 3
    /\ \E i, j, m \in DOMAIN items :
        /\ i < m /\ m < j
        /\ IsNull(sorted[1].field, sorted[1].input[m])
        /\ ~IsNull(sorted[1].field, sorted[1].input[i])
        /\ ~IsNull(sorted[1].field, sorted[1].input[j])
        /\ sorted[1].input[i].key < sorted[1].input[j].key
        /\ Pos(items, sorted[1].input[j]) < Pos(items, sorted[1].input[i])

\* C14: after a sort that returned, two rows that compare Equal, or are both
\* null, stand in the order they stood in before the sort.
SortIsStable ==
    Returned =>
        \A i, j \in DOMAIN items :
            /\ i < j
            /\ compare(sorted[1].field, sorted[1].dir, sorted[1].nulls,
                       items[i], items[j]) = Equal
            => Pos(sorted[1].input, items[i]) < Pos(sorted[1].input, items[j])

\* A descending sort moved two non-null rows of equal value and two null
\* rows to other places and kept each pair in its order.
SortIsStable_witness ==
    /\ Returned
    /\ sorted[1].dir = Descending
    /\ \E i, j \in NonNulls(sorted[1].field, items) :
        /\ i < j
        /\ items[i].key = items[j].key
        /\ Pos(sorted[1].input, items[i]) # i
        /\ Pos(sorted[1].input, items[j]) # j
    /\ \E i, j \in Nulls(sorted[1].field, items) :
        /\ i < j
        /\ Pos(sorted[1].input, items[i]) # i
        /\ Pos(sorted[1].input, items[j]) # j

\* Two sorts in a row, the first ascending and the second descending, of a
\* slice without null rows.
AscendingThenDescending ==
    /\ Returned
    /\ last # NoneV
    /\ last[1].dir = Ascending
    /\ sorted[1].dir = Descending
    /\ Nulls(sorted[1].field, items) = {}

\* C15 as stated: sorting ascending and then descending yields exactly the
\* reverse of the ascending sequence.
DescendingIsReverseOfAscending ==
    AscendingThenDescending => items = Reverse(sorted[1].input)

\* C15: sorting ascending and then descending yields the values of the
\* ascending sequence in reverse; the rows are its exact reverse when no two
\* of them hold the same value, and rows of equal value keep their order.
DescendingReversesValues ==
    AscendingThenDescending =>
        /\ KeysOf(items) = Reverse(KeysOf(sorted[1].input))
        /\ (\A i, j \in DOMAIN items : i # j => items[i].key # items[j].key)
            => items = Reverse(sorted[1].input)
        /\ \A i, j \in DOMAIN items :
            i < j /\ items[i].key = items[j].key
                => Pos(sorted[1].input, items[i]) < Pos(sorted[1].input, items[j])

\* An unsorted slice of different values, sorted ascending and then
\* descending.
DescendingReversesValues_witness ==
    /\ AscendingThenDescending
    /\ Len(items) >= 2
    /\ items # sorted[1].input
    /\ \A i, j \in DOMAIN items : i # j => items[i].key # items[j].key

\* A pair of non-null rows the comparator leaves unordered.
Violation(f, a, b) ==
    ~IsNull(f, a) /\ ~IsNull(f, b) /\ partial_cmp_by(f, a, b) = NoneV

\* C16: the comparison of a pair that has no ordering although neither row is
\* null is the unreachable!() panic and no Ordering, so that the sort of such
\* a pair panics; a sort panics only on such a pair, and never with a
\* comparator that gives every pair of non-null rows an ordering.
ViolationIsFatal ==
    sorted # NoneV =>
        LET c == sorted[1]
            rows == {c.input[i] : i \in DOMAIN c.input}
        IN  /\ \A a, b \in rows :
                (compare(c.field, c.dir, c.nulls, a, b) = Unreachable)
                    <=> Violation(c.field, a, b)
            /\ Len(c.input) = 2 /\ Violation(c.field, c.input[1], c.input[2])
                => c.panicked
            /\ c.panicked => \E a, b \in rows : Violation(c.field, a, b)
            /\ F_unordered = {} => ~c.panicked

\* The sort of two non-null rows without an ordering panicked.
ViolationIsFatal_witness ==
    /\ Panicked
    /\ Len(sorted[1].input) = 2
    /\ Violation(sorted[1].field, sorted[1].input[1], sorted[1].input[2])

\* C17: the sort of an empty slice or of a slice of one row returns and
\* leaves the slice as it was, also with a comparator that leaves pairs of
\* non-null values unordered.
ShortSliceUntouched ==
    sorted # NoneV /\ Len(sorted[1].input) <= 1
        => ~sorted[1].panicked /\ items = sorted[1].input

\* A slice of one non-null row was sorted with a comparator that breaks its
\* contract.
ShortSliceUntouched_witness ==
    /\ Returned
    /\ Len(sorted[1].input) = 1
    /\ ~IsNull(sorted[1].field, items[1])
    /\ F_unordered # {}

(***************************************************************************)
(* Properties of the table component.                                      *)
(***************************************************************************)
\* The values of the non-null rows of a slice, in order.
NonNullKeys(f, v) == KeysOf(SelectSeq(v, LAMBDA r : ~IsNull(f, r)))

\* C11: get_state and sort leave the active field and the direction as they
\* are: a render pass, which sorts the rows and reads get_state for the
\* headers, leaves the stored pair unchanged, and the pair it works with is
\* the stored pair, which only toggle_field and set_field write.
SortAndGetStateOnlyRead ==
    [][op' = op /\ RenderView =>
        /\ stored(Self') = stored(Self)
        /\ get_state(Self') = stored(Self)
        /\ sort(Self', items').self = Self']_vars

\* A render pass after a click sorted the rows into another order, by the
\* pair the click had stored.
SortAndGetStateOnlyRead_witness ==
    /\ last # NoneV
    /\ op.name = "toggle_field"
    /\ Returned
    /\ items # data
    /\ <<sorted[1].field, sorted[1].dir>> # <<last[1].field, last[1].dir>>
    /\ stored(Self) = <<sorted[1].field, sorted[1].dir>>
    /\ get_state(Self) = stored(Self)

\* C18: sort, toggle_field on the active Reversible field, sort again: the
\* second sort has the opposite direction, the values of the non-null rows
\* are those of the first sort in reverse, and the null rows are in the same
\* places.
ToggleReversesRows ==
    [][/\ Returned
       /\ op = Call("toggle_field", sorted[1].field, NoDir)
       /\ IsReversible(sorted[1].field)
       /\ get_state(Self) = <<sorted[1].field, sorted[1].dir>>
       /\ stored(Self) # get_state(Self)
       /\ RenderView
       => /\ Returned'
          /\ sorted'[1].field = sorted[1].field
          /\ sorted'[1].dir = invert(sorted[1].dir)
          /\ sorted'[1].nulls = sorted[1].nulls
          /\ NonNullKeys(sorted[1].field, items')
                = Reverse(NonNullKeys(sorted[1].field, items))
          /\ Nulls(sorted[1].field, items') = Nulls(sorted[1].field, items)
      ]_vars

\* Rows with a null row and two non-null rows were sorted, the header of the
\* active Reversible field was clicked, and the rows were sorted again, in the
\* opposite direction.
ToggleReversesRows_witness ==
    /\ Returned
    /\ last # NoneV
    /\ op = Call("toggle_field", sorted[1].field, NoDir)
    /\ IsReversible(sorted[1].field)
    /\ last[1].field = sorted[1].field
    /\ last[1].dir = invert(sorted[1].dir)
    /\ stored(Self) = <<sorted[1].field, sorted[1].dir>>
    /\ Nulls(sorted[1].field, items) # {}
    /\ Cardinality(NonNulls(sorted[1].field, items)) >= 2
    /\ items # data

\* C19: the pair the headers showed in a render pass is the pair the rows of
\* that pass were sorted by.
HeaderShowsSortState ==
    sorted # NoneV /\ shown # NoneV
        => shown[1] = <<sorted[1].field, sorted[1].dir>>

\* A component with presets was rendered again after a click while the slots
\* held another pair than the one the pass worked with.
HeaderShowsSortState_witness ==
    /\ builder # NoneV
    /\ last # NoneV
    /\ op.name = "toggle_field"
    /\ shown = Some(<<sorted[1].field, sorted[1].dir>>)
    /\ shown[1] # <<last[1].field, last[1].dir>>
    /\ stored(Self) # shown[1]

\* C20 as stated: once toggle_field or set_field has been called on a sorter
\* built with UseSorterBuilder, a render pass leaves the stored pair as it
\* found it and does not store the presets again.
PresetsConsumedOnce ==
    [][/\ op' = op
       /\ builder # NoneV
       /\ op.name # "use_sorter"
       /\ RenderView
       => stored(Self') = stored(Self)]_vars

(***************************************************************************)
(* Further properties of sort_by.                                          *)
(***************************************************************************)
\* The last sort had the arguments of the sort before it.
SameSortAgain == last # NoneV /\ sorted # NoneV /\ last = Earlier(sorted)

\* C22: a sort with the arguments of the sort before it, on the slice that
\* sort left, returns the slice as it found it.
SortIsIdempotent ==
    SameSortAgain => ~sorted[1].panicked /\ items = sorted[1].input

\* A slice with two non-null rows of equal value and two null rows, which the
\* first sort had to reorder, was sorted twice with the same arguments.
SortIsIdempotent_witness ==
    /\ SameSortAgain
    /\ Returned
    /\ items # data
    /\ \E i, j \in NonNulls(sorted[1].field, items) :
        i # j /\ items[i].key = items[j].key
    /\ Cardinality(Nulls(sorted[1].field, items)) >= 2

\* C25: for the rows of the sorted slice, when exactly one of a, b is null
\* the comparison is decided by the null handling alone (First: the null
\* side is Less, Last: the null side is Greater) and is the same in both
\* directions; when the comparator gives an ordering, Ascending keeps it
\* and Descending reverses it.
NullsResolvedBeforeDirection ==
    sorted # NoneV =>
        LET c == sorted[1]
            rows == {c.input[i] : i \in DOMAIN c.input}
        IN  \A a, b \in rows :
                /\ IsNull(c.field, a) /\ ~IsNull(c.field, b) =>
                    /\ compare(c.field, c.dir, c.nulls, a, b)
                        = (IF c.nulls = First THEN Less ELSE Greater)
                    /\ compare(c.field, c.dir, c.nulls, b, a)
                        = (IF c.nulls = First THEN Greater ELSE Less)
                    /\ compare(c.field, Other(c.dir), c.nulls, a, b)
                        = compare(c.field, c.dir, c.nulls, a, b)
                    /\ compare(c.field, Other(c.dir), c.nulls, b, a)
                        = compare(c.field, c.dir, c.nulls, b, a)
                /\ partial_cmp_by(c.field, a, b) # NoneV =>
                    compare(c.field, c.dir, c.nulls, a, b)
                        = (IF c.dir = Ascending
                           THEN partial_cmp_by(c.field, a, b)[1]
                           ELSE reverse(partial_cmp_by(c.field, a, b)[1]))

\* A descending sort with nulls first of a slice with a null row and two
\* non-null rows of different values.
NullsResolvedBeforeDirection_witness ==
    /\ Returned
    /\ sorted[1].dir = Descending
    /\ sorted[1].nulls = First
    /\ Nulls(sorted[1].field, sorted[1].input) # {}
    /\ \E i, j \in NonNulls(sorted[1].field, sorted[1].input) :
        sorted[1].input[i].key < sorted[1].input[j].key
    /\ items # sorted[1].input

\* The rows of a slice.
RowsOf(v) == {v[i] : i \in DOMAIN v}

\* C30: a sort that returns leaves a permutation of the slice it was given:
\* the same rows, each once.
SortPermutes ==
    Returned =>
        /\ Len(items) = Len(sorted[1].input)
        /\ RowsOf(items) = RowsOf(sorted[1].input)
        /\ Cardinality(RowsOf(items)) = Len(items)

\* A sort reordered a full slice with null rows and rows of equal value.
SortPermutes_witness ==
    /\ Returned
    /\ Len(items) = MaxLen
    /\ items # sorted[1].input
    /\ Nulls(sorted[1].field, items) # {}
    /\ \E i, j \in NonNulls(sorted[1].field, items) :
        i # j /\ items[i].key = items[j].key

(***************************************************************************)
(* Properties of the calls taken apart into their UseState::set calls.     *)
(***************************************************************************)
\* The sorter a call c leaves when made on the sorter self.
After(c, self) ==
    IF c.name = "toggle_field" THEN toggle_field(self, c.field)
    ELSE IF c.name = "set_field" THEN set_field(self, c.field, c.dir)
    ELSE self

\* The pairs a reader may get while or after the call op is made on the
\* sorter prev: the pair the sorter reported when the call began, and the
\* pair of field and direction the call stores.
WholePairs == {get_state(prev), stored(After(op, prev))}

\* The two slots hold the field of one call and the direction of another.
SlotsMixed == stored(Self) \notin {stored(prev), stored(After(op, prev))}

\* C21: toggle_field and set_field update the pair as one unit for everyone
\* who reads it.  A get_state call made at any point, also between the two
\* UseState::set calls of a call, returns the pair the sorter reported when
\* the call began, never the new field with the old direction or the old
\* field with the new direction; once the call has returned the two slots
\* hold the field and the direction that toggle_field or set_field computes
\* as one pair; and the render pass that follows reads that pair.
PairUpdatedAsUnit ==
    /\ [](shown # NoneV => shown[1] \in WholePairs)
    /\ [](pending # << >> => get_state(Self) = get_state(prev))
    /\ [](pending = << >> => stored(Self) = stored(After(op, prev)))
    /\ [][RenderCells => get_state(Self') = stored(After(op, prev))]_vars

\* get_state was called between the two UseState::set calls of a call that
\* changes both the field and the direction: the slots hold a mixed pair and
\* the reader got the pair from before the call.
PairUpdatedAsUnit_witness ==
    /\ Len(pending) = 1
    /\ SlotsMixed
    /\ stored(After(op, prev))[1] # stored(prev)[1]
    /\ stored(After(op, prev))[2] # stored(prev)[2]
    /\ shown # NoneV
    /\ shown[1] = get_state(prev)
    /\ shown[1] # stored(Self)

(***************************************************************************)
(* Further properties of the table component.                              *)
(***************************************************************************)
\* The arrow that stands for a direction.
ArrowOf(dir) == IF dir = Ascending THEN ArrowDown ELSE ArrowUp

\* C24: what ThStatus renders for a field is given by the field's
\* descriptor and the pair get_state reports: nothing for an unsortable
\* field, the arrow of its direction for a Fixed field, the arrow of the
\* current direction for the active Reversible field and the double-headed
\* arrow for any other Reversible field; only the active field is marked
\* active.
StatusFollowsState ==
    \A f \in Fields :
        LET st == ThStatus(Self, f)
            active == get_state(Self)[1] = f
        IN  /\ st = ThStatus(SorterAt(get_state(Self)), f)
            /\ ~Sortable(f) => st = Nothing
            /\ IsFixed(f) => st = ThSpan(active, ArrowOf(DescrDir(f)))
            /\ IsReversible(f) /\ active
                => st = ThSpan(TRUE, ArrowOf(get_state(Self)[2]))
            /\ IsReversible(f) /\ ~active => st = ThSpan(FALSE, ArrowBoth)
            /\ st # Nothing /\ st[1].active => active

\* The headers of an active Reversible field sorted descending and of a Fixed
\* field that is not active, after a click the component has yet to render.
StatusFollowsState_witness ==
    /\ op.name = "toggle_field"
    /\ stored(Self) # get_state(Self)
    /\ IsReversible(get_state(Self)[1])
    /\ get_state(Self)[2] = Descending
    /\ ThStatus(Self, get_state(Self)[1]) = ThSpan(TRUE, ArrowUp)
    /\ \E f \in Fields :
        /\ IsFixed(f)
        /\ stored(Self)[1] = f
        /\ ThStatus(Self, f) = ThSpan(FALSE, ArrowOf(DescrDir(f)))

\* C26: the rows of a render pass are sorted with the null handling of the
\* field that is active in that pass: also after a click or a set_field
\* call has switched to a field with another null handling, the null rows
\* stand where the null handling of the new field puts them.
NullsOfActiveField ==
    Returned =>
        LET f == get_state(Self)[1]
            n == Len(items)
            k == Cardinality(Nulls(f, items))
        IN  /\ sorted[1].field = f
            /\ sorted[1].nulls = F_null_handling[f]
            /\ \A i \in 1..n :
                IsNull(f, items[i])
                    <=> IF F_null_handling[f] = First THEN i <= k ELSE i > n - k

\* A click switched from a field with nulls last to a field with nulls
\* first, and the next render pass moved the null row to the front.
NullsOfActiveField_witness ==
    /\ Returned
    /\ last # NoneV
    /\ op.name = "toggle_field"
    /\ op.field = sorted[1].field
    /\ last[1].field # sorted[1].field
    /\ last[1].nulls = Last
    /\ sorted[1].nulls = First
    /\ IsNull(sorted[1].field, items[1])
    /\ ~IsNull(sorted[1].field, data[1])

(***************************************************************************)
(* Properties of UseSorterBuilder.                                         *)
(***************************************************************************)
\* The first render pass of the component: the hooks have just been created.
FirstPass == op.name = "use_sorter" /\ last = NoneV

\* The sorter that UseSorterBuilder::use_sorter returns for builder b in the
\* first render pass.
BuiltWith(b) == builder_use_sorter(b, use_sorter_init, FALSE)

\* The two orders of the builder calls.
FieldThenDirection(f, dir) ==
    with_direction(with_field(UseSorterBuilder_default, f), dir)
DirectionThenField(f, dir) ==
    with_field(with_direction(UseSorterBuilder_default, dir), f)

\* The pair that set_field stores for presets f and dir.
PresetPair(f, dir) ==
    IF Sortable(f) THEN <<f, ensure_direction(F_sort_by[f][1], dir)>>
    ELSE stored(use_sorter_init)

\* C23 as stated: there are a field f and a direction dir for which the two
\* orders of with_field and with_direction lead to different sorter states,
\* and in either order the state holds a direction f's descriptor allows.
BuilderOrderMatters ==
    /\ \E f \in Fields, dir \in Direction :
           stored(BuiltWith(FieldThenDirection(f, dir)))
               # stored(BuiltWith(DirectionThenField(f, dir)))
    /\ \A f \in Fields, dir \in Direction :
           /\ stored(BuiltWith(FieldThenDirection(f, dir))) \in LegalPairs
           /\ stored(BuiltWith(DirectionThenField(f, dir))) \in LegalPairs

\* What the builder does: for every field f and direction dir the two
\* orders give the same builder and the same sorter, which stores f with a
\* direction that f's descriptor allows, or the default pair when f is
\* unsortable.
BuilderOrderIrrelevant ==
    \A f \in Fields, dir \in Direction :
        /\ FieldThenDirection(f, dir) = DirectionThenField(f, dir)
        /\ BuiltWith(FieldThenDirection(f, dir))
               = BuiltWith(DirectionThenField(f, dir))
        /\ stored(BuiltWith(DirectionThenField(f, dir))) = PresetPair(f, dir)
        /\ PresetPair(f, dir) \in LegalPairs

\* C27 as stated: a sorter built with with_field(f) and no with_direction
\* starts in the state (f, ensure_direction(descriptor of f, direction
\* implied by F::default())), or in the default state when f is unsortable:
\* that is the state the first render pass reads from it.
BuilderStartsAtField ==
    /\ FirstPass
    /\ builder # NoneV
    /\ builder[1] = with_field(UseSorterBuilder_default, builder[1].field)
    => /\ stored(Self) = PresetPair(builder[1].field, from_field(F_default))
       /\ get_state(Self) = PresetPair(builder[1].field, from_field(F_default))
       /\ shown = Some(PresetPair(builder[1].field, from_field(F_default)))

(***************************************************************************)
(* Further properties of the sorter's calls.                               *)
(***************************************************************************)
\* C28 as stated: two toggle_field calls on the active Reversible field made
\* through the same handle with no render pass between them leave the
\* direction as it was before the first.
TogglesComposeInOneEvent ==
    /\ op.name = "toggle_field"
    /\ streak = 2
    /\ IsReversible(op.field)
    /\ Fresh(start)
    /\ get_state(start)[1] = op.field
    /\ get_state(Self) = get_state(start)
    => stored(Self) = stored(start)

\* The sorter after toggle_field(f) and after the render pass and second
\* toggle_field(f) that follow it.
ToggledOnce(f) == toggle_field(Self, f)
ToggledTwice(f) == toggle_field(use_sorter_again(ToggledOnce(f)), f)

\* C29: in every reachable state every toggle_field and every set_field call
\* can be made, and for every sortable field f and every direction dir that
\* f's descriptor permits the pair (f, dir) is stored after one
\* toggle_field(f) call or after a second one made in the next render pass.
NoTerminalNoUnreachable ==
    /\ \A f \in Fields : ENABLED ToggleField(f)
    /\ \A f \in Fields, dir \in Direction : ENABLED SetField(f, dir)
    /\ \A f \in Fields, dir \in Direction :
           Sortable(f) /\ <<f, dir>> \in LegalPairs
               => <<f, dir>> \in {stored(ToggledOnce(f)), stored(ToggledTwice(f))}

\* A pair that takes both calls: the field was not active and is Reversible,
\* and the second toggle_field stored the direction other than its initial
\* one.
NoTerminalNoUnreachable_witness ==
    /\ op.name = "toggle_field"
    /\ streak = 2
    /\ IsReversible(op.field)
    /\ get_state(start)[1] # op.field
    /\ get_state(prev) = <<op.field, DescrDir(op.field)>>
    /\ stored(Self) = <<op.field, Other(DescrDir(op.field))>>
    /\ stored(ToggledOnce(op.field)) = stored(Self)

(***************************************************************************)
(* The comparison as an ordering.                                          *)
(***************************************************************************)
\* The comparator keeps its contract: it orders every two non-null values.
ComparatorConsistent == F_unordered = {}

\* C31: when the comparator orders every two non-null values and gives no
\* ordering exactly when a side is null, the comparison that sort_by built
\* for the last call, whatever its direction and null handling, is over the
\* rows of the slice an Ordering (never the panic), antisymmetric
\* (compare(a, b) is the reverse of compare(b, a), and a row is Equal to
\* itself) and transitive (Less and Equal carry over from a, b and b, c to
\* a, c).
CompareIsAnOrdering ==
    ComparatorConsistent /\ sorted # NoneV =>
        LET s == sorted[1]
            rows == RowsOf(s.input)
        IN  \A a, b \in rows :
                LET ab == compare(s.field, s.dir, s.nulls, a, b)
                    ba == compare(s.field, s.dir, s.nulls, b, a)
                IN  /\ ab \in {Less, Equal, Greater}
                    /\ ab = reverse(ba)
                    /\ a = b => ab = Equal
                    /\ ab \in {Less, Equal} =>
                        \A c \in rows :
                            LET bc == compare(s.field, s.dir, s.nulls, b, c)
                                ac == compare(s.field, s.dir, s.nulls, a, c)
                            IN  /\ ab = Less /\ bc \in {Less, Equal} => ac = Less
                                /\ ab = Equal /\ bc = Less => ac = Less
                                /\ ab = Equal /\ bc = Equal => ac = Equal

\* A descending sort with nulls first reordered a slice that holds a null
\* row, two rows of different values and two rows of the same value.
CompareIsAnOrdering_witness ==
    /\ ComparatorConsistent
    /\ Returned
    /\ sorted[1].dir = Descending
    /\ sorted[1].nulls = First
    /\ items # sorted[1].input
    /\ Nulls(F_default, items) # {}
    /\ \E i, j, m \in NonNulls(F_default, items) :
        /\ items[i].key > items[j].key
        /\ i # m /\ items[i].key = items[m].key

(***************************************************************************)
(* Direction and SortBy.                                                   *)
(***************************************************************************)
\* C33: Direction::invert swaps the two directions: invert(Ascending) is
\* Descending and invert(Descending) is Ascending, so that inverting twice
\* gives the direction back and inverting once gives the other direction,
\* also for the directions the sorter holds; SortBy::direction returns dir
\* for Fixed(dir) and for Reversible(dir), also for the descriptors of the
\* field type.
InvertSwapsDirections ==
    /\ invert(Ascending) = Descending
    /\ invert(Descending) = Ascending
    /\ \A dir \in Direction :
        /\ invert(invert(dir)) = dir
        /\ invert(dir) # dir
        /\ invert(dir) \in Direction
        /\ SortBy_direction(Fixed(dir)) = dir
        /\ SortBy_direction(Reversible(dir)) = dir
    /\ \A dir \in {stored(Self)[2], get_state(Self)[2]} :
        invert(dir) = Other(dir) /\ invert(invert(dir)) = dir
    /\ \A f \in Fields, dir \in Direction :
        F_sort_by[f] \in {Some(Fixed(dir)), Some(Reversible(dir))}
            => SortBy_direction(F_sort_by[f][1]) = dir /\ from_field(f) = dir

\* The active Reversible(Descending) field was toggled, rendered and toggled
\* again: the first call stored the inverted direction, the second the
\* direction of the start, which is the one the descriptor names.
InvertSwapsDirections_witness ==
    /\ op.name = "toggle_field"
    /\ streak = 2
    /\ F_sort_by[op.field] = Some(Reversible(Descending))
    /\ Fresh(start)
    /\ get_state(start) = <<op.field, SortBy_direction(F_sort_by[op.field][1])>>
    /\ Fresh(prev)
    /\ get_state(prev) = <<op.field, invert(Descending)>>
    /\ stored(Self) = <<op.field, invert(invert(Descending))>>

(***************************************************************************)
(* The two snapshots of the sorter.                                        *)
(***************************************************************************)
\* The sorter holds and reports pairs whose direction the field permits.
DirectionPermitted == stored(Self) \in LegalPairs /\ get_state(Self) \in LegalPairs

\* C32 as stated: Sorter::set_field(f) of lib.rs and
\* UseSorter::toggle_field(f) of use_sorter.rs, made on the same sorter after
\* the same calls, leave the same sorter, for every field f.
OldSetFieldIsToggleField ==
    DirectionPermitted =>
        \A f \in Fields : Sorter_set_field(Self, f) = toggle_field(Self, f)

\* The two calls agree when the sorter has been rendered since the last call.
OldSetFieldIsToggleFieldOnceRendered ==
    DirectionPermitted /\ Fresh(Self) =>
        \A f \in Fields : Sorter_set_field(Self, f) = toggle_field(Self, f)

====
